---- MODULE Spec2Model ----
(***************************************************************************)
(* Model of halo2-base/src/utils.rs: the limb codec between arbitrary-     *)
(* precision integers and field elements.                                  *)
(*                                                                         *)
(* Representation.  Every unsigned integer of the program (u64, u128,      *)
(* BigUint, the canonical value of a field element) is the finite set of   *)
(* the positions of its one bits: 5 is {0, 2}, 2^100 is {100}, 0 is {}.    *)
(* The widths are the program's own (64, 128, 256 bits), so a mask, a      *)
(* shift, a wrap or a truncation acts on exactly the bits it acts on in    *)
(* the program.  AND is \cap, OR is \cup, and addition, subtraction and    *)
(* comparison are computed bit by bit (AddW, SubW, Less).                  *)
(*                                                                         *)
(* A usize (64 bits wide on the targets of the crate) is the integer r     *)
(* that is congruent to it modulo 2^64 and lies nearest to 0: 3 is 3 and   *)
(* 2^64 - 1 is -1.  Wrapping addition and subtraction are then + and -,    *)
(* and the overflow checks and the unsigned order are UAddOvf, ULess.      *)
(*                                                                         *)
(* A build of the crate either keeps debug_assert! and the arithmetic      *)
(* overflow checks (build = "debug") or compiles both out, and then        *)
(* shifts and subtractions wrap (build = "release").                       *)
(***************************************************************************)
EXTENDS Integers, Sequences, FiniteSets, TLC

VARIABLES
    build,   \* "debug" | "release": the profile the crate was compiled under
    backend, \* "halo2-axiom" | "halo2-pse": the feature that selects the field library
    call,    \* the call under way: the function and its arguments
    ret,     \* NoRet until the call ended, then what it ended with
    chain    \* the calls a caller made on the result, each with its result

vars == <<build, backend, call, ret, chain>>

(***************************************************************************)
(* Bounds of the model.                                                    *)
(***************************************************************************)
\* Limb counts 0 .. MaxLimbs.
MaxLimbs == 5
\* bit_len ranges over 0 .. MaxBitLen, which covers [0,64), [64,128) and
\* widths past 128.
MaxBitLen == 130
\* Input integers have their one bits at every Stride-th position, for
\* every Stride in 1 .. MaxStride.
MaxStride == 3
\* An input integer is up to 65 * MaxOver bits wider than the limbs hold.
MaxOver == 1
\* A digit sequence ends with up to MaxPad zero digits.
MaxPad == 1
\* log2_ceil and bit_length are called on the integers within MaxNear of a
\* power of two.
MaxNear == 2

(***************************************************************************)
(* Unsigned integers as sets of bit positions.                             *)
(***************************************************************************)
U64Bits == 64
U128Bits == 128

Zero == {}
One == {0}

SetMax(S) == CHOOSE x \in S : \A y \in S : y <= x

\* The position of the highest one bit of a non-zero integer.
MaxBit(S) ==
    LET h == SetMax({i \div 64 : i \in S})
    IN  SetMax({i \in S : i \div 64 = h})

\* BigUint::bits: the number of significant bits.
NumBits(S) == IF S = {} THEN 0 ELSE MaxBit(S) + 1

Shl(S, k) == {i + k : i \in S}
Shr(S, k) == {i - k : i \in {j \in S : j >= k}}
\* The low w bits: the value modulo 2^w.
Trunc(S, w) == {i \in S : i < w}

IntMin(a, b) == IF a <= b THEN a ELSE b
IntMax(a, b) == IF a >= b THEN a ELSE b

\* a < b: the highest bit in which they differ is b's.
Less(a, b) ==
    LET D == (a \ b) \cup (b \ a)
    IN  D # {} /\ MaxBit(D) \in b

Leq(a, b) == a = b \/ Less(a, b)

Bit(S, i) == IF i \in S THEN 1 ELSE 0

RECURSIVE CarryOut(_, _, _, _, _)
\* The carry out of bits lo .. hi-1 of a + b, with carry c into bit lo: no
\* carry comes out of bits that are not set in both without one coming in,
\* and one comes out of bits that are set in either with one coming in.
CarryOut(a, b, lo, hi, c) ==
    IF hi <= lo THEN c
    ELSE IF c = 0 /\ (a \cap b) \cap (lo .. hi - 1) = {} THEN 0
    ELSE IF c = 1 /\ (lo .. hi - 1) \subseteq (a \cup b) THEN 1
    ELSE IF hi = lo + 1 THEN (Bit(a, lo) + Bit(b, lo) + c) \div 2
    ELSE LET mid == (lo + hi) \div 2
         IN  IF CarryOut(a, b, lo, mid, c) = 0 THEN CarryOut(a, b, mid, hi, 0)
             ELSE CarryOut(a, b, mid, hi, 1)

RECURSIVE AddRange(_, _, _, _, _)
\* Bits lo .. hi-1 of a + b, with carry c into bit lo.
AddRange(a, b, lo, hi, c) ==
    IF hi <= lo THEN {}
    ELSE IF c = 0 /\ (a \cap b) \cap (lo .. hi - 1) = {}
    THEN (a \cup b) \cap (lo .. hi - 1)
    ELSE IF c = 1 /\ (lo .. hi - 1) \subseteq (a \cup b)
    THEN (a \cap b) \cap (lo .. hi - 1)
    ELSE IF hi = lo + 1
    THEN IF (Bit(a, lo) + Bit(b, lo) + c) % 2 = 1 THEN {lo} ELSE {}
    ELSE LET mid == (lo + hi) \div 2
         IN  AddRange(a, b, lo, mid, c)
                 \cup (IF CarryOut(a, b, lo, mid, c) = 0 THEN AddRange(a, b, mid, hi, 0)
                       ELSE AddRange(a, b, mid, hi, 1))

\* (a + b) mod 2^w.
AddW(a, b, w) == AddRange(a, b, 0, w, 0)

\* a + b, exactly.
Add(a, b) == AddW(a, b, IntMax(NumBits(a), NumBits(b)) + 1)

\* (a - b) mod 2^w: a plus the w-bit complement of b plus one.
SubW(a, b, w) == AddRange(a, (0 .. w - 1) \ b, 0, w, 1)

\* a - b for a >= b.
Sub(a, b) == SubW(a, b, NumBits(a))

(***************************************************************************)
(* usize and the checked or wrapping operators of the two builds.          *)
(***************************************************************************)
\* Unsigned order of two usize values.
ULess(a, b) == IF (a < 0) = (b < 0) THEN a < b ELSE b < 0

\* a + b passes 2^64.
UAddOvf(a, b) ==
    IF a >= 0 /\ b >= 0 THEN FALSE
    ELSE IF a < 0 /\ b < 0 THEN TRUE
    ELSE a + b >= 0

\* a - b passes below 0.
USubOvf(a, b) == ULess(a, b)

\* A shift of a w-bit integer by the usize s overflows when s >= w; the
\* wrapping shift takes s modulo w (w a power of two that divides 2^64).
ShiftOvf(s, w) == s < 0 \/ s >= w

ShlW(x, s, w) == Trunc(Shl(x, s % w), w)
ShrW(x, s, w) == Shr(x, s % w)

\* How a call ends.
NoRet == [panic |-> FALSE, done |-> FALSE, val |-> <<>>]
Panic == [panic |-> TRUE, done |-> TRUE, val |-> <<>>]
Ok(v) == [panic |-> FALSE, done |-> TRUE, val |-> v]

\* What a computation whose checked operators overflowed (ovf) ends with:
\* a panic where the checks are compiled in, the wrapped value otherwise.
Checked(ovf, v) == IF build = "debug" /\ ovf THEN Panic ELSE Ok(v)

(***************************************************************************)
(* BigUint and its digits.                                                 *)
(***************************************************************************)
\* Digit j (from 0) of e in base 2^64.
Digit(e, j) == {i - 64 * j : i \in {k \in e : k \div 64 = j}}

\* BigUint::to_u64_digits and iter_u64_digits: the digits, least
\* significant first, without leading zero digits (none at all for 0).
to_u64_digits(e) ==
    IF e = {} THEN <<>>
    ELSE [j \in 1 .. (MaxBit(e) \div 64) + 1 |-> Digit(e, j - 1)]

\* The integer a digit sequence stands for.
FromDigits(digits) ==
    UNION {Shl(digits[j], 64 * (j - 1)) : j \in DOMAIN digits}

\* An iterator that yields its last digit again once it is exhausted.
NextDigitRepeating(digits, pos) ==
    IF pos <= Len(digits) THEN digits[pos]
    ELSE IF Len(digits) = 0 THEN Zero ELSE digits[Len(digits)]

\* e.next().unwrap_or(0) on the iterator at position pos (from 1).
NextDigit(digits, pos) == IF pos <= Len(digits) THEN digits[pos] ELSE Zero

(***************************************************************************)
(* decompose_u64_digits_to_limbs                                           *)
(***************************************************************************)
\* The closure's state after rem.cmp(&bit_len) gave Greater.
LimbGreater(digits, bit_len, mask, s) ==
    [limb |-> s.u64_digit \cap mask,
     next |-> [pos       |-> s.pos,
               u64_digit |-> ShrW(s.u64_digit, bit_len, U64Bits),
               rem       |-> s.rem - bit_len,
               ovf       |-> \/ s.ovf
                             \/ ShiftOvf(bit_len, U64Bits)
                             \/ USubOvf(s.rem, bit_len)]]

\* ... Equal.
LimbEqual(digits, bit_len, mask, s) ==
    [limb |-> s.u64_digit \cap mask,
     next |-> [pos       |-> s.pos + 1,
               u64_digit |-> NextDigit(digits, s.pos),
               rem       |-> 64,
               ovf       |-> s.ovf]]

\* A variant of LimbLess that forgets to shift the incoming bits above the
\* rem bits already held.
LimbLessNoShift(digits, bit_len, mask, s) ==
    LET d    == bit_len - s.rem
        nxt  == NextDigit(digits, s.pos)
        one  == ShlW(One, d, U64Bits)
        low  == SubW(one, One, U64Bits)
    IN  [limb |-> s.u64_digit \cup (nxt \cap low),
         next |-> [pos       |-> s.pos + 1,
                   u64_digit |-> ShrW(nxt, d, U64Bits),
                   rem       |-> s.rem + (64 - bit_len),
                   ovf       |-> s.ovf]]

\* ... Less: the limb spans two digits.
LimbLess(digits, bit_len, mask, s) ==
    LET d    == bit_len - s.rem
        nxt  == NextDigit(digits, s.pos)
        one  == ShlW(One, d, U64Bits)
        low  == SubW(one, One, U64Bits)
    IN  [limb |-> s.u64_digit \cup ShlW(nxt \cap low, s.rem, U64Bits),
         next |-> [pos       |-> s.pos + 1,
                   u64_digit |-> ShrW(nxt, d, U64Bits),
                   rem       |-> s.rem + (64 - bit_len),
                   ovf       |-> \/ s.ovf
                                 \/ USubOvf(bit_len, s.rem)
                                 \/ ShiftOvf(d, U64Bits)
                                 \/ Less(one, One)
                                 \/ ShiftOvf(s.rem, U64Bits)
                                 \/ USubOvf(64, bit_len)
                                 \/ UAddOvf(s.rem, 64 - bit_len)]]

\* One call of the closure of the map: the limb and the state it leaves.
LimbStep(digits, bit_len, mask, s) ==
    IF s.rem = bit_len THEN LimbEqual(digits, bit_len, mask, s)
    ELSE IF ULess(bit_len, s.rem) THEN LimbGreater(digits, bit_len, mask, s)
    ELSE LimbLess(digits, bit_len, mask, s)

RECURSIVE DigitLimbs(_, _, _, _, _)
\* (0..k).map(closure).collect() from state s.
DigitLimbs(digits, bit_len, mask, s, k) ==
    IF k = 0 THEN [limbs |-> <<>>, ovf |-> s.ovf]
    ELSE LET r    == LimbStep(digits, bit_len, mask, s)
             rest == DigitLimbs(digits, bit_len, mask, r.next, k - 1)
         IN  [limbs |-> <<r.limb>> \o rest.limbs, ovf |-> rest.ovf]

decompose_u64_digits_to_limbs(e, number_of_limbs, bit_len) ==
    IF build = "debug" /\ ~(bit_len < 64) THEN Panic
    ELSE LET one  == ShlW(One, bit_len, U64Bits)
             mask == SubW(one, One, U64Bits)
             s0   == [pos       |-> 2,
                      u64_digit |-> NextDigit(e, 1),
                      rem       |-> 64,
                      ovf       |-> ShiftOvf(bit_len, U64Bits) \/ Less(one, One)]
             r    == DigitLimbs(e, bit_len, mask, s0, number_of_limbs)
         IN  Checked(r.ovf, r.limbs)

(***************************************************************************)
(* The field F.  The crate is generic in F: BigPrimeField; its tests take  *)
(* F to be bn256::Fr, and so does the model.  A field element is its       *)
(* canonical value in [0, p).                                              *)
(***************************************************************************)
\* The hexadecimal digits of the order of bn256::Fr, most significant first.
FrModulusHex ==
    << 3, 0, 6, 4, 4, 14, 7, 2, 14, 1, 3, 1, 10, 0, 2, 9,
       11, 8, 5, 0, 4, 5, 11, 6, 8, 1, 8, 1, 5, 8, 5, 13,
       2, 8, 3, 3, 14, 8, 4, 8, 7, 9, 11, 9, 7, 0, 9, 1,
       4, 3, 14, 1, 15, 5, 9, 3, 15, 0, 0, 0, 0, 0, 0, 1 >>

\* p, the order of bn256::Fr.
FrModulus ==
    {n \in 0 .. 255 : (FrModulusHex[64 - n \div 4] \div 2^(n % 4)) % 2 = 1}

RECURSIVE Reduce(_)
\* The canonical value of the integer x.
Reduce(x) == IF Less(x, FrModulus) THEN x ELSE Reduce(Sub(x, FrModulus))

FOne == One
\* -x in F.
FNeg(x) == IF x = Zero THEN Zero ELSE Sub(FrModulus, x)
\* F::from_u128 and F::from(u64).
from_u128(x) == Reduce(x)
from_u64(x) == Reduce(x)

\* fe.to_repr(): the 32 bytes of the canonical value, least significant first.
to_repr(fe) == [i \in 1 .. 32 |-> {k - 8 * (i - 1) : k \in {j \in fe : j \div 8 = i - 1}}]

\* BigUint::from_bytes_le.
from_bytes_le(bytes) == UNION {Shl(bytes[i], 8 * (i - 1)) : i \in DOMAIN bytes}

\* BigUint::to_bytes_le: no leading zero bytes, and the one byte 0 for 0.
to_bytes_le(e) ==
    IF e = {} THEN <<Zero>>
    ELSE [i \in 1 .. (MaxBit(e) \div 8) + 1 |->
             {k - 8 * (i - 1) : k \in {j \in e : j \div 8 = i - 1}}]

\* F::from_repr(repr).unwrap() of the bytes copied into a zeroed F::Repr: the
\* copy panics past 32 bytes, the unwrap on a value that is not canonical.
from_repr_unwrap(bytes) ==
    IF Len(bytes) > 32 THEN Panic
    ELSE IF Less(from_bytes_le(bytes), FrModulus) THEN Ok(from_bytes_le(bytes))
    ELSE Panic

\* BigPrimeField::from_u64_digits: the digits copied into [0u64; 4] and
\* F::from of the array, which reduces it.
from_u64_digits(val) ==
    IF Len(val) > 4 THEN Panic
    ELSE Ok(Reduce(FromDigits(val)))

\* -x on the result of a conversion that may have panicked.
NegOk(r) == IF r.panic THEN Panic ELSE Ok(FNeg(r.val))

(***************************************************************************)
(* BigInt: a sign and a magnitude.                                         *)
(***************************************************************************)
\* BigInt::from_biguint: a zero magnitude has no sign.
from_biguint(sign, mag) ==
    IF mag = Zero \/ sign = "NoSign" THEN [sign |-> "NoSign", mag |-> Zero]
    ELSE [sign |-> sign, mag |-> mag]

is_negative(e) == e.sign = "Minus"

(***************************************************************************)
(* bit_length, log2_ceil                                                   *)
(***************************************************************************)
\* The bits of a small integer.
NatBits(n) == {i \in 0 .. 30 : (n \div 2^i) % 2 = 1}

\* u64::leading_zeros.
leading_zeros(x) == IF x = Zero THEN 64 ELSE 63 - MaxBit(x)

\* The result, a usize, as its bits.
bit_length(x) == Ok(NatBits(U64Bits - leading_zeros(x)))

\* A variant of log2_ceil that never subtracts the power-of-two bit.
log2_ceil_no_pow(x) == Ok(NatBits(U64Bits - leading_zeros(x)))

\* log2_ceil with wrapping subtractions in every build.
log2_ceil_wrapping(x) ==
    LET len  == U64Bits - leading_zeros(x)
        x1   == SubW(x, One, U64Bits)
        pow  == IF x \cap x1 = Zero THEN 1 ELSE 0
    IN  Ok(SubW(NatBits(len), NatBits(pow), 32))

\* u64::BITS - x.leading_zeros() - (x & (x - 1) == 0) as u32, in u32, as usize.
log2_ceil(x) ==
    LET len  == U64Bits - leading_zeros(x)
        x1   == SubW(x, One, U64Bits)
        pow  == IF x \cap x1 = Zero THEN 1 ELSE 0
    IN  Checked(Less(x, One) \/ len < pow,
                SubW(NatBits(len), NatBits(pow), 32))

(***************************************************************************)
(* modulus, the conversions between F and the integers                     *)
(***************************************************************************)
\* BigUint::from_bytes_le(fe.to_repr()).
fe_to_biguint(fe) == from_bytes_le(to_repr(fe))

\* fe_to_biguint(&-F::one()) + 1u64.
modulus == Add(fe_to_biguint(FNeg(FOne)), One)

biguint_to_fe(e) ==
    IF backend = "halo2-axiom"
    THEN IF build = "debug" /\ ~(Len(to_u64_digits(e)) <= 4) THEN Panic
         ELSE from_u64_digits(to_u64_digits(e))
    ELSE from_repr_unwrap(to_bytes_le(e))

\* A variant of bigint_to_fe that drops the sign.
bigint_to_fe_abs(e) == biguint_to_fe(e.mag)

bigint_to_fe(e) ==
    IF e.sign = "Minus" THEN NegOk(biguint_to_fe(e.mag))
    ELSE biguint_to_fe(e.mag)

\* A variant of fe_to_bigint whose threshold is strict.
fe_to_bigint_strict(fe) ==
    LET e == fe_to_biguint(fe)
    IN  IF Less(e, Shr(modulus, 1)) THEN from_biguint("Plus", e)
        ELSE from_biguint("Minus", Sub(modulus, e))

\* modulus / 2u32 is the shift by one bit.
fe_to_bigint(fe) ==
    LET e == fe_to_biguint(fe)
    IN  IF Leq(e, Shr(modulus, 1)) THEN from_biguint("Plus", e)
        ELSE from_biguint("Minus", Sub(modulus, e))

(***************************************************************************)
(* decompose_biguint, decompose_bigint, decompose_bigint_option            *)
(***************************************************************************)
\* A variant of WideStep that never pulls a third digit into the limb.
WideStepTwoDigits(digits, bit_len, s) ==
    LET d1   == NextDigit(digits, s.pos)
        rem  == bit_len - s.rem
        low  == SubW(ShlW(One, rem, U64Bits), One, U64Bits)
    IN  [limb |-> s.u64_digit \cup ShlW(d1 \cap low, s.rem, U128Bits),
         next |-> [pos       |-> s.pos + 1,
                   u64_digit |-> ShrW(d1, rem, U64Bits),
                   rem       |-> 64 - rem,
                   ovf       |-> s.ovf]]

\* One call of the closure of (1..num_limbs).map: the 128-bit limb and the
\* state it leaves.
WideStep(digits, bit_len, s) ==
    LET d1   == NextDigit(digits, s.pos)
        take == ~ULess(bit_len, 64 + s.rem)
        limb == IF take THEN s.u64_digit \cup ShlW(d1, s.rem, U128Bits)
                ELSE s.u64_digit
        d2   == IF take THEN NextDigit(digits, s.pos + 1) ELSE d1
        bits == IF take THEN s.rem + 64 ELSE s.rem
        rem  == bit_len - bits
        one  == ShlW(One, rem, U64Bits)
        low  == SubW(one, One, U64Bits)
    IN  [limb |-> limb \cup ShlW(d2 \cap low, bits, U128Bits),
         next |-> [pos       |-> IF take THEN s.pos + 2 ELSE s.pos + 1,
                   u64_digit |-> ShrW(d2, rem, U64Bits),
                   rem       |-> 64 - rem,
                   ovf       |-> \/ s.ovf
                                 \/ UAddOvf(64, s.rem)
                                 \/ (take /\ ShiftOvf(s.rem, U128Bits))
                                 \/ (take /\ UAddOvf(s.rem, 64))
                                 \/ USubOvf(bit_len, bits)
                                 \/ ShiftOvf(rem, U64Bits)
                                 \/ Less(one, One)
                                 \/ ShiftOvf(bits, U128Bits)
                                 \/ USubOvf(64, rem)]]

RECURSIVE WideLimbs(_, _, _, _)
\* The k limbs of the map from state s, each through F::from_u128.
WideLimbs(digits, bit_len, s, k) ==
    IF k <= 0 THEN [limbs |-> <<>>, ovf |-> s.ovf]
    ELSE LET r    == WideStep(digits, bit_len, s)
             rest == WideLimbs(digits, bit_len, r.next, k - 1)
         IN  [limbs |-> <<from_u128(r.limb)>> \o rest.limbs, ovf |-> rest.ovf]

\* once(limb0).chain((1..num_limbs).map(..)): the range is empty for
\* num_limbs <= 1, and limb0 is there whatever num_limbs is.
decompose_biguint(e, num_limbs, bit_len) ==
    IF build = "debug" /\ ~(64 <= bit_len /\ bit_len < 128) THEN Panic
    ELSE LET digits == to_u64_digits(e)
             d0     == NextDigit(digits, 1)
             rem    == bit_len - 64
             d1     == NextDigit(digits, 2)
             one    == ShlW(One, rem, U64Bits)
             low    == SubW(one, One, U64Bits)
             limb0  == d0 \cup ShlW(d1 \cap low, 64, U128Bits)
             s0     == [pos       |-> 3,
                        u64_digit |-> ShrW(d1, rem, U64Bits),
                        rem       |-> 64 - rem,
                        ovf       |-> \/ USubOvf(bit_len, 64)
                                      \/ ShiftOvf(rem, U64Bits)
                                      \/ Less(one, One)
                                      \/ USubOvf(64, rem)]
             r      == WideLimbs(digits, bit_len, s0, num_limbs - 1)
         IN  Checked(r.ovf, <<from_u128(limb0)>> \o r.limbs)

\* A variant of decompose_bigint that leaves the limbs of a negative e as
\* they are.
decompose_bigint_abs(e, num_limbs, bit_len) ==
    decompose_biguint(e.mag, num_limbs, bit_len)

\* The limbs of the magnitude, each negated in F when e is negative.
decompose_bigint(e, num_limbs, bit_len) ==
    LET r == decompose_biguint(e.mag, num_limbs, bit_len)
    IN  IF r.panic THEN Panic
        ELSE IF is_negative(e) THEN Ok([i \in DOMAIN r.val |-> FNeg(r.val[i])])
        ELSE r

\* Value::known(v) and Value::unknown().
Known(v) == [known |-> TRUE, v |-> v]
Unknown == [known |-> FALSE, v |-> Zero]

\* value.map(|e| decompose_bigint(..)).transpose_vec(number_of_limbs): the
\* closure runs on a known value only, and transpose_vec asserts the length
\* of a known vector and makes number_of_limbs unknowns of an unknown one.
decompose_bigint_option(value, number_of_limbs, bit_len) ==
    IF ~value.known THEN Ok([i \in 1 .. number_of_limbs |-> Unknown])
    ELSE LET r == decompose_bigint(value.v, number_of_limbs, bit_len)
         IN  IF r.panic \/ Len(r.val) # number_of_limbs THEN Panic
             ELSE Ok([i \in DOMAIN r.val |-> Known(r.val[i])])

(***************************************************************************)
(* decompose, decompose_fe_to_u64_limbs                                    *)
(***************************************************************************)
\* The four digits of F's Into<[u64; 4]>.
into_u64x4(fe) == [j \in 1 .. 4 |-> Digit(fe, j - 1)]

decompose_fe_to_u64_limbs(e, number_of_limbs, bit_len) ==
    IF backend = "halo2-axiom"
    THEN decompose_u64_digits_to_limbs(into_u64x4(e), number_of_limbs, bit_len)
    ELSE decompose_u64_digits_to_limbs(to_u64_digits(fe_to_biguint(e)),
                                       number_of_limbs, bit_len)

decompose(e, number_of_limbs, bit_len) ==
    IF ULess(64, bit_len)
    THEN decompose_biguint(fe_to_biguint(e), number_of_limbs, bit_len)
    ELSE LET r == decompose_fe_to_u64_limbs(e, number_of_limbs, bit_len)
         IN  IF r.panic THEN Panic
             ELSE Ok([i \in DOMAIN r.val |-> from_u64(r.val[i])])

(***************************************************************************)
(* compose                                                                 *)
(***************************************************************************)
RECURSIVE ComposeFold(_, _, _, _)
\* The fold over input[1 .. k] in reverse, from accumulator acc.
ComposeFold(input, bit_len, k, acc) ==
    IF k = 0 THEN acc
    ELSE ComposeFold(input, bit_len, k - 1, Add(Shl(acc, bit_len), input[k]))

\* A variant of compose that folds from the least significant limb.
compose_forward(input, bit_len) ==
    ComposeFold([i \in DOMAIN input |-> input[Len(input) + 1 - i]], bit_len,
                Len(input), Zero)

compose(input, bit_len) == ComposeFold(input, bit_len, Len(input), Zero)

(***************************************************************************)
(* The calls.  A behaviour is one call of one function of the crate on     *)
(* arguments drawn from the sets below, and then the calls a caller makes  *)
(* on its result: compose on the limbs of decompose_biguint, and the       *)
(* conversions between F and BigInt on each other's results.               *)
(***************************************************************************)
Builds == {"debug", "release"}
Backends == {"halo2-axiom", "halo2-pse"}

\* The integer below 2^width with a one bit at every stride-th position.
Pattern(stride, width) == {i \in 0 .. width - 1 : i % stride = 0}

Pow2(k) == {k}

\* The integers decomposed into n limbs of b bits: those that fill the
\* n*b bits, those that pass them, 0 and 2^100 + 5.
Ints(n, b) ==
    {Pattern(s, n * b + 65 * k) : s \in 1 .. MaxStride, k \in 0 .. MaxOver}
        \cup {Zero, {0, 2, 100}}

\* One of them, for the specification that calls every function.
FewInts(n, b) == {Pattern(MaxStride, n * b + 65 * MaxOver)}

\* All of them, or the one.
IntsOf(few, n, b) == IF few THEN FewInts(n, b) ELSE Ints(n, b)

\* The integers within MaxNear of x, none below 0.
Near(x) ==
    {Add(x, NatBits(j)) : j \in 0 .. MaxNear}
        \cup {Sub(x, NatBits(j)) : j \in {i \in 0 .. MaxNear : Leq(NatBits(i), x)}}

\* Field elements: the ends and the middle of [0, p), and bit patterns.
FieldElems ==
    {x \in Near(Zero) \cup Near(Shr(FrModulus, 1)) \cup Near(FrModulus)
           \cup {Pattern(s, 253) : s \in 1 .. MaxStride} \cup {{0, 2, 100}}
       : Less(x, FrModulus)}

FewFieldElems == {Pattern(MaxStride, 253)}

\* Field elements for decompose: p - 1 and bit patterns.
DispatchElems == {Pattern(s, 253) : s \in 1 .. MaxStride} \cup {Sub(FrModulus, One)}

\* Magnitudes for bigint_to_fe: those, and some at and past p and 2^256.
Magnitudes ==
    Near(Zero) \cup Near(Shr(FrModulus, 1)) \cup Near(FrModulus) \cup Near(Pow2(256))
        \cup {Pattern(s, 253) : s \in 1 .. MaxStride}

\* The u64 values within MaxNear of a power of two, and 0 and 2^64 - 1.
U64s ==
    UNION {{Trunc(x, U64Bits) : x \in Near(Pow2(k))} : k \in 0 .. 63}
        \cup {Zero, 0 .. 63}

\* Every bit_len, and those each codec is written for.
Widths == 0 .. MaxBitLen
DigitWidths == 0 .. 63
WideWidths == 64 .. 127
Counts == 0 .. MaxLimbs

\* A call: the function, and its arguments among seq (a digit or a limb
\* sequence), e (an unsigned integer, a field element or a magnitude), sign
\* (of a BigInt), known (of a Value), n (the limb count) and b (bit_len).
Call(fn, seq, e, sign, known, n, b) ==
    [fn |-> fn, seq |-> seq, e |-> e, sign |-> sign, known |-> known,
     n |-> n, b |-> b]

\* A function called with every limb count, the widths of widths, the
\* integers of IntsOf(few, n, b), the signs of signs and the Values of knowns.
Grid(fn, widths, few, signs, knowns) ==
    UNION {{Call(fn, to_u64_digits(x), x, sg, kn, n, b)
               : x \in IntsOf(few, n, b), sg \in signs, kn \in knowns}
           : n \in Counts, b \in widths}

\* The digits of decompose_u64_digits_to_limbs are those of e, and those
\* followed by zero digits.
DigitCalls(widths, few, pads) ==
    UNION {{Call("decompose_u64_digits_to_limbs",
                 to_u64_digits(x) \o [i \in 1 .. pad |-> Zero], x, "Plus", TRUE, n, b)
               : x \in IntsOf(few, n, b), pad \in pads}
           : n \in Counts, b \in widths}
WideCalls(widths, few) ==
    Grid("decompose_biguint", widths, few, {"Plus"}, {TRUE})
SignedCalls(widths, few) ==
    Grid("decompose_bigint", widths, few, {"Plus", "Minus"}, {TRUE})
OptionCalls(widths, few) ==
    Grid("decompose_bigint_option", widths, few, {"Minus"}, BOOLEAN)

\* decompose_bigint on integers of either sign: 2^(n*b) - 1, a pattern of
\* n*b bits or, when those pass p, of the bits below the highest of p, 0
\* and 2^100 + 5.
SignedInts(n, b) ==
    {Pattern(MaxStride, IntMin(n * b, MaxBit(FrModulus))), Pattern(1, n * b),
     Zero, {0, 2, 100}}
SignedFitCalls ==
    UNION {{Call("decompose_bigint", to_u64_digits(x), x, sg, TRUE, n, b)
               : x \in SignedInts(n, b), sg \in {"Plus", "Minus"}}
           : n \in Counts, b \in WideWidths}

DispatchCalls(elems) ==
    {Call("decompose", <<>>, x, "Plus", TRUE, n, b)
        : x \in elems, n \in Counts, b \in Widths}

\* compose on limbs wider than b bits, so that they overlap and carry.
ComposeCalls(widths, strides) ==
    {Call("compose", [i \in 1 .. n |-> Pattern(s, b + i)], Zero, "Plus", TRUE, n, b)
        : s \in strides, n \in Counts, b \in widths}

FieldCalls ==
    {Call("fe_to_bigint", <<>>, x, "Plus", TRUE, 0, 0) : x \in FieldElems}
        \cup {Call("bigint_to_fe", <<>>, x, sg, TRUE, 0, 0)
                 : x \in Magnitudes, sg \in {"Plus", "Minus"}}

BitsCalls ==
    {Call(fn, <<>>, x, "Plus", TRUE, 0, 0)
        : fn \in {"log2_ceil", "bit_length"}, x \in U64s}

\* The BigInt argument of a call.
BigIntOf(c) == from_biguint(c.sign, c.e)

\* The features a function's code depends on, or bigint_to_fe on the
\* function's argument: the others are checked under the default feature
\* alone.
BackendsOf(fn) ==
    IF fn \in {"decompose", "decompose_bigint", "fe_to_bigint", "bigint_to_fe"} THEN Backends
    ELSE {"halo2-axiom"}

InitOn(calls) ==
    /\ build \in Builds
    /\ call \in calls
    /\ backend \in BackendsOf(call.fn)
    /\ ret = NoRet
    /\ chain = <<>>

(***************************************************************************)
(* The actions: one per function, and one per call a caller chains.        *)
(***************************************************************************)
CallDecomposeU64DigitsToLimbs ==
    /\ ~ret.done
    /\ call.fn = "decompose_u64_digits_to_limbs"
    /\ ret' = decompose_u64_digits_to_limbs(call.seq, call.n, call.b)
    /\ UNCHANGED <<build, backend, call, chain>>

CallDecomposeBiguint ==
    /\ ~ret.done
    /\ call.fn = "decompose_biguint"
    /\ ret' = decompose_biguint(call.e, call.n, call.b)
    /\ UNCHANGED <<build, backend, call, chain>>

CallDecomposeBigint ==
    /\ ~ret.done
    /\ call.fn = "decompose_bigint"
    /\ ret' = decompose_bigint(BigIntOf(call), call.n, call.b)
    /\ UNCHANGED <<build, backend, call, chain>>

CallDecomposeBigintOption ==
    /\ ~ret.done
    /\ call.fn = "decompose_bigint_option"
    /\ ret' = decompose_bigint_option([known |-> call.known, v |-> BigIntOf(call)],
                                      call.n, call.b)
    /\ UNCHANGED <<build, backend, call, chain>>

CallDecompose ==
    /\ ~ret.done
    /\ call.fn = "decompose"
    /\ ret' = decompose(call.e, call.n, call.b)
    /\ UNCHANGED <<build, backend, call, chain>>

CallCompose ==
    /\ ~ret.done
    /\ call.fn = "compose"
    /\ ret' = Ok(compose(call.seq, call.b))
    /\ UNCHANGED <<build, backend, call, chain>>

CallFeToBigint ==
    /\ ~ret.done
    /\ call.fn = "fe_to_bigint"
    /\ ret' = Ok(fe_to_bigint(call.e))
    /\ UNCHANGED <<build, backend, call, chain>>

CallBigintToFe ==
    /\ ~ret.done
    /\ call.fn = "bigint_to_fe"
    /\ ret' = bigint_to_fe(BigIntOf(call))
    /\ UNCHANGED <<build, backend, call, chain>>

CallLog2Ceil ==
    /\ ~ret.done
    /\ call.fn = "log2_ceil"
    /\ ret' = log2_ceil(call.e)
    /\ UNCHANGED <<build, backend, call, chain>>

CallBitLength ==
    /\ ~ret.done
    /\ call.fn = "bit_length"
    /\ ret' = bit_length(call.e)
    /\ UNCHANGED <<build, backend, call, chain>>

Returned == ret.done /\ ~ret.panic

\* The caller composes the limbs decompose_biguint returned.
ComposeLimbs ==
    /\ call.fn = "decompose_biguint"
    /\ Returned
    /\ Len(chain) = 0
    /\ chain' = <<Ok(compose([i \in DOMAIN ret.val |-> fe_to_biguint(ret.val[i])],
                             call.b))>>
    /\ UNCHANGED <<build, backend, call, ret>>

\* The caller converts the BigInt of fe_to_bigint back into F.
BackToFe ==
    /\ call.fn = "fe_to_bigint"
    /\ Returned
    /\ Len(chain) = 0
    /\ chain' = <<bigint_to_fe(ret.val)>>
    /\ UNCHANGED <<build, backend, call, ret>>

\* The caller converts the field element of bigint_to_fe, the call's own
\* or the chained one, back into a BigInt.
BackToBigint ==
    /\ \/ /\ call.fn = "bigint_to_fe"
          /\ Returned
          /\ Len(chain) = 0
          /\ chain' = <<Ok(fe_to_bigint(ret.val))>>
       \/ /\ call.fn = "fe_to_bigint"
          /\ Len(chain) = 1
          /\ ~chain[1].panic
          /\ chain' = Append(chain, Ok(fe_to_bigint(chain[1].val)))
    /\ UNCHANGED <<build, backend, call, ret>>

(***************************************************************************)
(* The specifications: every function on a few integers, and each family   *)
(* of functions on all of them.                                            *)
(***************************************************************************)
Init ==
    InitOn(DigitCalls(Widths, TRUE, {0}) \cup WideCalls(Widths, TRUE)
               \cup SignedCalls(Widths, TRUE) \cup OptionCalls(Widths, TRUE)
               \cup DispatchCalls(FewFieldElems) \cup ComposeCalls(Widths, {MaxStride})
               \cup FieldCalls \cup BitsCalls)

Next ==
    \/ CallDecomposeU64DigitsToLimbs
    \/ CallDecomposeBiguint
    \/ CallDecomposeBigint
    \/ CallDecomposeBigintOption
    \/ CallDecompose
    \/ CallCompose
    \/ CallFeToBigint
    \/ CallBigintToFe
    \/ CallLog2Ceil
    \/ CallBitLength
    \/ ComposeLimbs
    \/ BackToFe
    \/ BackToBigint

Spec == Init /\ [][Next]_vars

\* decompose_u64_digits_to_limbs.
InitDigit == InitOn(DigitCalls(DigitWidths, FALSE, 0 .. MaxPad))
NextDigitCodec == CallDecomposeU64DigitsToLimbs
SpecDigit == InitDigit /\ [][NextDigitCodec]_vars

\* decompose_biguint and compose.
InitWide == InitOn(WideCalls(WideWidths, FALSE) \cup ComposeCalls(WideWidths, 1 .. MaxStride))
NextWide == CallDecomposeBiguint \/ CallCompose \/ ComposeLimbs
SpecWide == InitWide /\ [][NextWide]_vars

\* decompose.
InitDispatch == InitOn(DispatchCalls(DispatchElems))
NextDispatch == CallDecompose
SpecDispatch == InitDispatch /\ [][NextDispatch]_vars

\* fe_to_bigint and bigint_to_fe.
InitField == InitOn(FieldCalls)
NextField == CallFeToBigint \/ CallBigintToFe \/ BackToFe \/ BackToBigint
SpecField == InitField /\ [][NextField]_vars

\* bit_length and log2_ceil.
InitBits == InitOn(BitsCalls)
NextBits == CallLog2Ceil \/ CallBitLength
SpecBits == InitBits /\ [][NextBits]_vars

\* decompose_bigint.
InitSigned == InitOn(SignedFitCalls)
NextSigned == CallDecomposeBigint
SpecSigned == InitSigned /\ [][NextSigned]_vars

(***************************************************************************)
(* The reference decomposition of the tests, and the properties.           *)
(***************************************************************************)
RECURSIVE RefLimbs(_, _, _)
\* The k limbs the tests compute: e & mask, then e >>= bit_len, k times,
\* with mask = (1 << bit_len) - 1.
RefLimbs(e, k, bit_len) ==
    IF k = 0 THEN <<>>
    ELSE <<e \cap Sub(Shl(One, bit_len), One)>> \o RefLimbs(Shr(e, bit_len), k - 1, bit_len)

\* floor(e / 2^(i * bit_len)) mod 2^bit_len.
LimbOf(e, i, bit_len) == Trunc(Shr(e, i * bit_len), bit_len)

\* e < 2^(n * bit_len).
Fits(e, n, bit_len) == NumBits(e) <= n * bit_len

\* The field element the tests make of a limb: Fr::from_bytes of its bytes.
FieldOf(x) == from_repr_unwrap(to_bytes_le(x)).val

IsDigitCall == call.fn = "decompose_u64_digits_to_limbs"
IsWideCall == call.fn = "decompose_biguint"

\* C1: for bit_len in 0..63, a limb count of at least 1 and e below
\* 2^(number_of_limbs * bit_len), given as its digits,
\* decompose_u64_digits_to_limbs returns the limbs of the reference that
\* masks and shifts e: limb i is floor(e / 2^(i * bit_len)) mod 2^bit_len.
C1_DigitLimbsMatchReference ==
    (/\ IsDigitCall
     /\ ret.done
     /\ call.b \in 0 .. 63
     /\ call.n >= 1
     /\ Fits(FromDigits(call.seq), call.n, call.b))
    => /\ ~ret.panic
       /\ ret.val = RefLimbs(FromDigits(call.seq), call.n, call.b)
       /\ \A i \in 1 .. call.n : ret.val[i] = LimbOf(FromDigits(call.seq), i - 1, call.b)

\* Five limbs of 63 bits of 2^315 - 1 came back, the last one all ones.
C1_Witness ==
    /\ IsDigitCall
    /\ ret.done
    /\ ~ret.panic
    /\ call.b = 63
    /\ call.n = 5
    /\ FromDigits(call.seq) = 0 .. 314
    /\ Len(ret.val) = 5
    /\ ret.val[5] = 0 .. 62

\* C2: for bit_len in 64..127, a limb count of at least 1 and e below
\* 2^(num_limbs * bit_len), decompose_biguint returns the field elements of
\* the reference's limbs: limb i is the field element of
\* floor(e / 2^(i * bit_len)) mod 2^bit_len.
C2_WideLimbsMatchReference ==
    (/\ IsWideCall
     /\ ret.done
     /\ call.b \in 64 .. 127
     /\ call.n >= 1
     /\ Fits(call.e, call.n, call.b))
    => /\ ~ret.panic
       /\ ret.val = [i \in 1 .. call.n |-> FieldOf(RefLimbs(call.e, call.n, call.b)[i])]
       /\ \A i \in 1 .. call.n : fe_to_biguint(ret.val[i]) = LimbOf(call.e, i - 1, call.b)

\* Five limbs of 127 bits of 2^635 - 1 came back, the last one 2^127 - 1.
C2_Witness ==
    /\ IsWideCall
    /\ ret.done
    /\ ~ret.panic
    /\ call.b = 127
    /\ call.n = 5
    /\ call.e = 0 .. 634
    /\ Len(ret.val) = 5
    /\ fe_to_biguint(ret.val[5]) = 0 .. 126

RECURSIVE SumOfLimbs(_, _, _)
\* The sum over i < k of input[i] * 2^(bit_len * i), from the least
\* significant limb up.
SumOfLimbs(input, bit_len, k) ==
    IF k = 0 THEN Zero
    ELSE Add(SumOfLimbs(input, bit_len, k - 1), Shl(input[k], bit_len * (k - 1)))

\* C3: for bit_len in 64..127, a limb count of at least 1 and e below
\* 2^(num_limbs * bit_len), compose on the canonical integers of the limbs
\* of decompose_biguint gives e back; and compose returns the sum over i of
\* limb_i * 2^(bit_len * i).
C3_ComposeInvertsDecompose ==
    /\ (/\ IsWideCall
        /\ Len(chain) = 1
        /\ call.b \in 64 .. 127
        /\ call.n >= 1
        /\ Fits(call.e, call.n, call.b))
       => /\ ~chain[1].panic
          /\ chain[1].val = call.e
    /\ (call.fn = "compose" /\ ret.done)
       => /\ ~ret.panic
          /\ ret.val = SumOfLimbs(call.seq, call.b, Len(call.seq))

\* Three limbs of 100 bits of a 300-bit integer were composed back.
C3_Witness ==
    /\ IsWideCall
    /\ call.b = 100
    /\ call.n = 3
    /\ NumBits(call.e) = 300
    /\ Len(chain) = 1
    /\ NumBits(chain[1].val) = 300

\* C4: for bit_len below 64, any limb count and any digit sequence, short
\* ones included, decompose_u64_digits_to_limbs returns the limbs of e mod
\* 2^(number_of_limbs * bit_len) and does not fail: digits past the end read
\* as zero and bits past the limbs are dropped.  For 2^100 + 5, two limbs
\* and 8 bits it returns [5, 0].
C4_DigitLimbsTruncateAndPad ==
    (/\ IsDigitCall
     /\ ret.done
     /\ call.b < 64)
    => /\ ~ret.panic
       /\ ret.val = RefLimbs(Trunc(FromDigits(call.seq), call.n * call.b), call.n, call.b)
       /\ (FromDigits(call.seq) = {0, 2, 100} /\ call.n = 2 /\ call.b = 8)
              => ret.val = <<{0, 2}, Zero>>

\* 2^100 + 5 in two limbs of 8 bits gave 5 and 0.
C4_Witness ==
    /\ IsDigitCall
    /\ ret.done
    /\ call.seq = <<{0, 2}, {36}>>
    /\ call.n = 2
    /\ call.b = 8
    /\ ret.val = <<{0, 2}, Zero>>

\* The widths decompose_u64_digits_to_limbs and decompose_biguint assume.
DigitWidthOk(bit_len) == ULess(bit_len, 64)
WideWidthOk(bit_len) == ~ULess(bit_len, 64) /\ ULess(bit_len, 128)

\* C5: for every limb count, 0 included, and every valid bit_len,
\* decompose_u64_digits_to_limbs returns exactly number_of_limbs values,
\* each below 2^bit_len, and decompose_biguint and decompose_bigint return
\* exactly num_limbs field elements.
C5_LengthIsLimbCount ==
    /\ (IsDigitCall /\ ret.done /\ DigitWidthOk(call.b))
       => /\ ~ret.panic
          /\ Len(ret.val) = call.n
          /\ \A i \in DOMAIN ret.val : Less(ret.val[i], Pow2(call.b))
    /\ (call.fn \in {"decompose_biguint", "decompose_bigint"}
            /\ ret.done /\ WideWidthOk(call.b))
       => /\ ~ret.panic
          /\ Len(ret.val) = call.n

\* C6: fe_to_bigint returns v when v <= floor(p/2) and v - p otherwise, for
\* the canonical value v of its argument: an integer in (-p/2, p/2] that is
\* congruent to v modulo p.  It returns -1 for p - 1 and (p-1)/2 for
\* (p-1)/2.
C6_BalancedRepresentative ==
    (call.fn = "fe_to_bigint" /\ ret.done)
    => LET v    == call.e
           x    == ret.val
           half == Shr(FrModulus, 1)
       IN  /\ ~ret.panic
           /\ Leq(v, half) => (x = from_biguint("Plus", v) /\ x.sign # "Minus")
           /\ Less(half, v) => (x.sign = "Minus" /\ Add(x.mag, v) = FrModulus)
           /\ x.sign = "Minus" => Less(Shl(x.mag, 1), FrModulus)
           /\ x.sign # "Minus" => Leq(x.mag, half)
           /\ v = Sub(FrModulus, One) => x = [sign |-> "Minus", mag |-> One]
           /\ v = half => x = [sign |-> "Plus", mag |-> half]

\* fe_to_bigint of p - 1 returned -1.
C6_Witness ==
    /\ call.fn = "fe_to_bigint"
    /\ call.e = Sub(FrModulus, One)
    /\ ret.done
    /\ ret.val = [sign |-> "Minus", mag |-> One]

\* x lies in (-p/2, p/2].
Balanced(x) ==
    IF x.sign = "Minus" THEN Less(Shl(x.mag, 1), FrModulus)
    ELSE Leq(x.mag, Shr(FrModulus, 1))

\* C7: for every field element f and x = fe_to_bigint(f), bigint_to_fe(x)
\* is f and fe_to_bigint of it is x; for every integer x in (-p/2, p/2],
\* fe_to_bigint(bigint_to_fe(x)) is x, and so it is for x = -1.
C7_SignedRoundTrip ==
    /\ (call.fn = "fe_to_bigint" /\ Len(chain) >= 1)
       => /\ ~chain[1].panic
          /\ chain[1].val = call.e
    /\ (call.fn = "fe_to_bigint" /\ Len(chain) = 2)
       => /\ ~chain[2].panic
          /\ chain[2].val = ret.val
    /\ (call.fn = "bigint_to_fe" /\ ret.done /\ Balanced(BigIntOf(call)))
       => /\ ~ret.panic
          /\ Len(chain) = 1 => chain[1].val = BigIntOf(call)
          /\ (Len(chain) = 1 /\ call.sign = "Minus" /\ call.e = One)
                 => chain[1].val = [sign |-> "Minus", mag |-> One]

\* bigint_to_fe(-1) returned p - 1, and fe_to_bigint of that returned -1.
C7_Witness ==
    /\ call.fn = "bigint_to_fe"
    /\ call.sign = "Minus"
    /\ call.e = One
    /\ ret.done
    /\ ret.val = Sub(FrModulus, One)
    /\ Len(chain) = 1
    /\ chain[1].val = [sign |-> "Minus", mag |-> One]

\* C8: for every bit_len in 1..127, 64 included, decompose returns limbs of
\* bit_len bits: limb i is the field element of floor(v / 2^(i * bit_len))
\* mod 2^bit_len for the canonical value v of e.  It calls decompose_biguint
\* when bit_len > 64 and decompose_u64_digits_to_limbs otherwise, each with
\* a bit_len that function assumes.
C8_DecomposeEveryWidth ==
    (/\ call.fn = "decompose"
     /\ ret.done
     /\ call.b \in 1 .. 127
     /\ call.n >= 1)
    => /\ ~ret.panic
       /\ ret.val = [i \in 1 .. call.n |-> FieldOf(LimbOf(call.e, i - 1, call.b))]
       /\ IF ULess(64, call.b) THEN WideWidthOk(call.b) ELSE DigitWidthOk(call.b)

\* The least k with 2^k >= x, and the least k with x < 2^k.
CeilLog2(x) ==
    CHOOSE k \in 0 .. 64 : Leq(x, Pow2(k)) /\ \A j \in 0 .. k - 1 : ~Leq(x, Pow2(j))
BitsOf(x) ==
    CHOOSE k \in 0 .. 64 : Less(x, Pow2(k)) /\ \A j \in 0 .. k - 1 : ~Less(x, Pow2(j))

\* C9: for every 64-bit x # 0, log2_ceil(x) is the least k with 2^k >= x:
\* it is bit_length(x) - 1 when x is a power of two and bit_length(x)
\* otherwise, where bit_length(x) is the least k with x < 2^k.
\* bit_length is 0, 1 and 64 at 0, 1 and 2^63, and log2_ceil is 0, 1, 2 and
\* 2 at 1, 2, 3 and 4.
C9_Log2Ceil ==
    /\ (call.fn = "log2_ceil" /\ ret.done /\ call.e # Zero)
       => /\ ~ret.panic
          /\ ret.val = NatBits(CeilLog2(call.e))
          /\ ret.val = IF Cardinality(call.e) = 1
                       THEN Sub(bit_length(call.e).val, One)
                       ELSE bit_length(call.e).val
          /\ call.e = NatBits(1) => ret.val = NatBits(0)
          /\ call.e = NatBits(2) => ret.val = NatBits(1)
          /\ call.e = NatBits(3) => ret.val = NatBits(2)
          /\ call.e = NatBits(4) => ret.val = NatBits(2)
    /\ (call.fn = "bit_length" /\ ret.done)
       => /\ ~ret.panic
          /\ ret.val = NatBits(BitsOf(call.e))
          /\ call.e = Zero => ret.val = NatBits(0)
          /\ call.e = One => ret.val = NatBits(1)
          /\ call.e = Pow2(63) => ret.val = NatBits(64)

\* log2_ceil(2^63 + 1) returned 64.
C9_Witness ==
    /\ call.fn = "log2_ceil"
    /\ call.e = {0, 63}
    /\ ret.done
    /\ ret.val = NatBits(64)

\* A call on a bit_len outside the width its function assumes, or
\* log2_ceil(0).
WidthViolation ==
    \/ IsDigitCall /\ ~DigitWidthOk(call.b)
    \/ /\ call.fn \in {"decompose_biguint", "decompose_bigint", "decompose_bigint_option"}
       /\ ~WideWidthOk(call.b)
    \/ call.fn = "log2_ceil" /\ call.e = Zero

WidestLimb(limbs) ==
    IF limbs = <<>> THEN 0 ELSE SetMax({NumBits(limbs[i]) : i \in DOMAIN limbs})

\* The sum over i of limbs[i] * 2^(bit_len * i) in F: the canonical value of
\* the integer sum when the limbs are narrow, and otherwise, as the sum in F
\* of the negations of the limbs is the negation of their sum, the negation
\* of the canonical value of the integer sum of the negated limbs.
FieldSum(limbs, bit_len) ==
    IF 2 * WidestLimb(limbs) <= NumBits(FrModulus)
    THEN Reduce(SumOfLimbs(limbs, bit_len, Len(limbs)))
    ELSE FNeg(Reduce(SumOfLimbs([i \in DOMAIN limbs |-> FNeg(limbs[i])],
                                bit_len, Len(limbs))))

IsSignedCall == call.fn = "decompose_bigint"

\* The limbs of decompose_bigint are those of decompose_biguint on the
\* magnitude, each replaced by its negation in F exactly when e is negative,
\* and it fails when decompose_biguint does.
LimbsNegatedWhenNegative ==
    LET r == decompose_biguint(call.e, call.n, call.b)
    IN  /\ ret.panic = r.panic
        /\ ~ret.panic
           => /\ Len(ret.val) = Len(r.val)
              /\ \A i \in DOMAIN ret.val :
                    ret.val[i] = IF call.sign = "Minus" /\ call.e # Zero /\ r.val[i] # Zero
                                 THEN Sub(FrModulus, r.val[i])
                                 ELSE r.val[i]

\* bigint_to_fe(e) is a value, and the sum over i of
\* limb_i * 2^(i * bit_len) in F is that value.
LimbsSumToBigintToFe ==
    LET t == bigint_to_fe(BigIntOf(call))
    IN  /\ ~t.panic
        /\ FieldSum(ret.val, call.b) = t.val

\* C11, as the specification states it: decompose_bigint returns the limbs
\* of decompose_biguint on |e|, each replaced by its negation in F exactly
\* when e is negative (a zero limb stays zero); and for
\* |e| < 2^(num_limbs * bit_len) the sum over i of limb_i * 2^(i * bit_len)
\* in F is bigint_to_fe(e).
C11_SignedLimbs ==
    (IsSignedCall /\ ret.done)
    => /\ LimbsNegatedWhenNegative
       /\ (~ret.panic /\ Fits(call.e, call.n, call.b)) => LimbsSumToBigintToFe

\* bigint_to_fe takes |e|: it is below p, or it is below 2^256 and the
\* feature is halo2-axiom, whose from_u64_digits reduces four digits.
BigintToFeTakes(e) ==
    Less(e, FrModulus) \/ (backend = "halo2-axiom" /\ NumBits(e) <= 4 * U64Bits)

\* C11, as the code has it: the same, the sum being bigint_to_fe(e) for
\* |e| < 2^(num_limbs * bit_len) that is also below p, or below 2^256 under
\* the feature halo2-axiom.
C11_SignedLimbsBelowModulus ==
    (IsSignedCall /\ ret.done)
    => /\ LimbsNegatedWhenNegative
       /\ (~ret.panic /\ Fits(call.e, call.n, call.b) /\ BigintToFeTakes(call.e))
              => LimbsSumToBigintToFe

\* -(2^100 + 5) in five limbs of 64 bits gave p - 5, p - 2^36 and three
\* zero limbs.
C11_Witness ==
    /\ IsSignedCall
    /\ call.sign = "Minus"
    /\ call.e = {0, 2, 100}
    /\ call.n = 5
    /\ call.b = 64
    /\ ret.done
    /\ ret.val = <<Sub(FrModulus, {0, 2}), Sub(FrModulus, {36}), Zero, Zero, Zero>>

====
